---- MODULE Spec2Model ----
(***************************************************************************)
(* Model of dash-rs src/ser/indexed.rs: IndexedSerializer, a serde         *)
(* Serializer that writes the fields of a record into one byte buffer,     *)
(* joined by a delimiter.                                                  *)
(*                                                                         *)
(* Text is modelled as a sequence of byte values (ASCII / UTF-8 codes).    *)
(* A serializer instance is the record                                     *)
(*   [delimiter, buffer, map_like, is_start]                               *)
(* extended with the return value of the last call (result) and a history  *)
(* of the segments handed to the buffer (appended).                        *)
(***************************************************************************)
EXTENDS Integers, Sequences, FiniteSets, TLC

VARIABLES delimiter, buffer, map_like, is_start,
          result, appended, open, abandoned, finished, output, last, nops

vars == <<delimiter, buffer, map_like, is_start,
          result, appended, open, abandoned, finished, output, last, nops>>

(* ---------------------------------------------------------------- bounds *)
MaxOps == 2
MaxOpen == 2

(* ------------------------------------------------------------ text bytes *)
Comma == <<44>>
Colon == <<58>>
Delimiters == {Comma, Colon}

str_empty == <<>>
str_ab == <<97, 98>>
key_a == <<97>>
key_b == <<98>>
key_x == <<120>>
key_y == <<121>>
key_p == <<112>>
key_q == <<113>>
key_r == <<114>>
key_d == <<100>>
key_s == <<115>>
key_n == <<110>>
key_inner == <<105, 110, 110, 101, 114>>

(* ---------------------------------------------------------------- results *)
Ok == [ok |-> TRUE, err |-> "none"]
Unsupported(name) == [ok |-> FALSE, err |-> name]
Panic == [ok |-> FALSE, err |-> "panic"]

(* ------------------------------------------------------ number formatting *)
RECURSIVE Digits(_)
Digits(n) == IF n < 10 THEN <<48 + n>> ELSE Digits(n \div 10) \o <<48 + (n % 10)>>

\* itoa::write: decimal digits, leading '-' when negative
itoa_write(int) == IF int < 0 THEN <<45>> \o Digits(0 - int) ELSE Digits(int)

\* dtoa::write for a float given in halves (h stands for h/2):
\* 1.5 -> "1.5", 0.0 -> "0.0", -0.5 -> "-0.5"
dtoa_write(h) ==
    LET a == IF h < 0 THEN 0 - h ELSE h
    IN (IF h < 0 THEN <<45>> ELSE <<>>) \o Digits(a \div 2) \o <<46>>
         \o (IF a % 2 = 1 THEN <<53>> ELSE <<48>>)

\* char::encode_utf8 for code points below U+0800
encode_utf8(c) ==
    IF c < 128 THEN <<c>> ELSE <<192 + (c \div 64), 128 + (c % 64)>>

(* ---------------------------------------------------------------- base64 *)
\* base64::URL_SAFE character set: A-Z a-z 0-9 - _
\* the standard character set: + and / in places 62 and 63
StandardChar(i) ==
    IF i < 26 THEN 65 + i
    ELSE IF i < 52 THEN 97 + (i - 26)
    ELSE IF i < 62 THEN 48 + (i - 52)
    ELSE IF i = 62 THEN 43 ELSE 47

UrlSafeChar(i) ==
    IF i < 26 THEN 65 + i
    ELSE IF i < 52 THEN 97 + (i - 26)
    ELSE IF i < 62 THEN 48 + (i - 52)
    ELSE IF i = 62 THEN 45 ELSE 95

PadChar == 61

RECURSIVE Base64Encode(_)
\* base64::encode_config_slice(v, URL_SAFE, ..): URL_SAFE has pad = true
Base64Encode(v) ==
    IF Len(v) = 0 THEN <<>>
    ELSE IF Len(v) = 1 THEN
        <<UrlSafeChar(v[1] \div 4), UrlSafeChar((v[1] % 4) * 16), PadChar, PadChar>>
    ELSE IF Len(v) = 2 THEN
        <<UrlSafeChar(v[1] \div 4),
          UrlSafeChar((v[1] % 4) * 16 + (v[2] \div 16)),
          UrlSafeChar((v[2] % 16) * 4), PadChar>>
    ELSE
        <<UrlSafeChar(v[1] \div 4),
          UrlSafeChar((v[1] % 4) * 16 + (v[2] \div 16)),
          UrlSafeChar((v[2] % 16) * 4 + (v[3] \div 64)),
          UrlSafeChar(v[3] % 64)>> \o Base64Encode(SubSeq(v, 4, Len(v)))

\* Vec::resize(new_len, value)
VecResize(vec, new_len, value) ==
    IF new_len <= Len(vec) THEN SubSeq(vec, 1, new_len)
    ELSE vec \o [i \in 1..(new_len - Len(vec)) |-> value]

(* ---------------------------------------------------------- append engine *)
Logged(st, kind, seg) == Append(st.appended, [kind |-> kind, seg |-> seg])

\* an integer append that never clears is_start
append_integer_keeps_start(st, int) ==
    LET buf == IF st.is_start THEN st.buffer ELSE st.buffer \o st.delimiter
    IN [st EXCEPT !.buffer = buf \o itoa_write(int),
                  !.appended = Logged(st, "integer", itoa_write(int)),
                  !.result = Ok]

append_integer(st, int) ==
    LET buf == IF st.is_start THEN st.buffer ELSE st.buffer \o st.delimiter
    IN [st EXCEPT !.is_start = FALSE,
                  !.buffer = buf \o itoa_write(int),
                  !.appended = Logged(st, "integer", itoa_write(int)),
                  !.result = Ok]

append_float(st, float) ==
    LET buf == IF st.is_start THEN st.buffer ELSE st.buffer \o st.delimiter
    IN [st EXCEPT !.is_start = FALSE,
                  !.buffer = buf \o dtoa_write(float),
                  !.appended = Logged(st, "float", dtoa_write(float)),
                  !.result = Ok]

append(st, s) ==
    LET buf == IF st.is_start THEN st.buffer ELSE st.buffer \o st.delimiter
    IN [st EXCEPT !.is_start = FALSE,
                  !.buffer = buf \o s,
                  !.appended = Logged(st, "text", s),
                  !.result = Ok]

(* ------------------------------------------------------------- values *)
\* The shapes a visited value can present to the serializer.
VBool(b) == [shape |-> "bool", bool |-> b]
VInt(shape, n) == [shape |-> shape, int |-> n]
VFloat(shape, h) == [shape |-> shape, float |-> h]
VChar(c) == [shape |-> "char", char |-> c]
VStr(s) == [shape |-> "str", str |-> s]
VBytes(b) == [shape |-> "bytes", bytes |-> b]
VNone == [shape |-> "none"]
VSome(x) == [shape |-> "some", some |-> x]
VStruct(fields) == [shape |-> "struct", fields |-> fields]
VOther(shape) == [shape |-> shape]
Field(key, value) == [key |-> key, value |-> value]

UnsupportedShapes ==
    {"unit", "unit_struct", "unit_variant", "newtype_struct",
     "newtype_variant", "seq", "tuple", "tuple_struct", "tuple_variant",
     "map", "struct_variant", "display"}

(* --------------------------------------------------------- the dispatcher *)
\* the two digits of a boolean exchanged
serialize_bool_swapped(st, v) == append(st, IF v THEN <<48>> ELSE <<49>>)

serialize_bool(st, v) == append(st, IF v THEN <<49>> ELSE <<48>>)

serialize_i8(st, v) == append_integer(st, v)

serialize_i16(st, v) == append_integer(st, v)

serialize_i32(st, v) == append_integer(st, v)

serialize_i64(st, v) == append_integer(st, v)

serialize_u8(st, v) == append_integer(st, v)

serialize_u16(st, v) == append_integer(st, v)

serialize_u32(st, v) == append_integer(st, v)

serialize_u64(st, v) == append_integer(st, v)

serialize_f32(st, v) == append_float(st, v)

serialize_f64(st, v) == append_float(st, v)

serialize_char(st, v) == append(st, encode_utf8(v))

serialize_str(st, v) == append(st, v)

\* a reservation without the four spare bytes
serialize_bytes_tight(st, v) ==
    LET idx == Len(st.buffer)
        resized == VecResize(st.buffer, idx + (Len(v) * 4) \div 3, 0)
        enc == Base64Encode(v)
        written == Len(enc)
        filled == SubSeq(resized, 1, idx) \o enc
                    \o SubSeq(resized, idx + written + 1, Len(resized))
    IN IF written > Len(resized) - idx
       THEN [st EXCEPT !.buffer = resized, !.result = Panic]
       ELSE [st EXCEPT !.buffer = VecResize(filled, idx + written, 0),
                       !.appended = Logged(st, "bytes", enc),
                       !.result = Ok]

\* an encoder handed the whole buffer instead of the region after idx
serialize_bytes_from_front(st, v) ==
    LET idx == Len(st.buffer)
        resized == VecResize(st.buffer, idx + (Len(v) * 4) \div 3 + 4, 0)
        enc == Base64Encode(v)
        written == Len(enc)
        filled == enc \o SubSeq(resized, written + 1, Len(resized))
    IN IF written > Len(resized)
       THEN [st EXCEPT !.buffer = resized, !.result = Panic]
       ELSE [st EXCEPT !.buffer = VecResize(filled, idx + written, 0),
                       !.appended = Logged(st, "bytes", enc),
                       !.result = Ok]

serialize_bytes(st, v) ==
    LET idx == Len(st.buffer)
        resized == VecResize(st.buffer, idx + (Len(v) * 4) \div 3 + 4, 0)
        enc == Base64Encode(v)
        written == Len(enc)
        filled == SubSeq(resized, 1, idx) \o enc
                    \o SubSeq(resized, idx + written + 1, Len(resized))
    IN IF written > Len(resized) - idx
       THEN [st EXCEPT !.buffer = resized, !.result = Panic]
       ELSE [st EXCEPT !.buffer = VecResize(filled, idx + written, 0),
                       !.appended = Logged(st, "bytes", enc),
                       !.result = Ok]

\* an absent value routed through append as an empty text
serialize_none_as_text(st) ==
    [append(st, <<>>) EXCEPT !.appended = Logged(st, "absent", <<>>)]

\* an absent value that writes nothing at all
serialize_none_silent(st) ==
    [st EXCEPT !.appended = Logged(st, "absent", <<>>),
               !.result = Ok]

serialize_none(st) ==
    [st EXCEPT !.buffer = st.buffer \o st.delimiter,
               !.appended = Logged(st, "absent", <<>>),
               !.result = Ok]

serialize_unit(st) == [st EXCEPT !.result = Unsupported("serialize_unit")]

serialize_unit_struct(st) == [st EXCEPT !.result = Unsupported("serialize_unit_struct")]

serialize_unit_variant(st) == [st EXCEPT !.result = Unsupported("serialize_unit_variant")]

serialize_newtype_struct(st) == [st EXCEPT !.result = Unsupported("serialize_newtype_struct")]

serialize_newtype_variant(st) == [st EXCEPT !.result = Unsupported("serialize_newtype_variant")]

\* a sequence accepted like a record
serialize_seq_accepted(st) == [st EXCEPT !.result = Ok]

serialize_seq(st) == [st EXCEPT !.result = Unsupported("serialize_seq")]

serialize_tuple(st) == [st EXCEPT !.result = Unsupported("serialize_tuple")]

serialize_tuple_struct(st) == [st EXCEPT !.result = Unsupported("serialize_tuple_struct")]

serialize_tuple_variant(st) == [st EXCEPT !.result = Unsupported("serialize_tuple_variant")]

serialize_map(st) == [st EXCEPT !.result = Unsupported("serialize_map")]

\* a record that opens with a delimiter of its own
serialize_struct_marked(st) ==
    [st EXCEPT !.buffer = st.buffer \o st.delimiter, !.result = Ok]

serialize_struct(st) == [st EXCEPT !.result = Ok]

serialize_struct_variant(st) == [st EXCEPT !.result = Unsupported("serialize_struct_variant")]

collect_str(st) == [st EXCEPT !.result = Unsupported("collect_str")]

end(st) == [st EXCEPT !.result = Ok]

RECURSIVE Serialize(_, _)
RECURSIVE SerializeFields(_, _)
RECURSIVE serialize_some(_, _)
RECURSIVE serialize_field(_, _, _)

\* a present optional that writes a delimiter of its own before the value
serialize_some_wrapped(st, value) ==
    Serialize([st EXCEPT !.buffer = st.buffer \o st.delimiter], value)

serialize_some(st, value) == Serialize(st, value)

\* a field that writes its key in both modes
serialize_field_always_named(st, key, value) ==
    LET named == append(st, key)
    IN IF named.result.ok THEN Serialize(named, value) ELSE named

serialize_field(st, key, value) ==
    IF st.map_like
    THEN LET named == append(st, key)
         IN IF named.result.ok THEN Serialize(named, value) ELSE named
    ELSE Serialize(st, value)

\* a record that goes on to its next field after a refused one
SerializeFieldsThrough(st, fields) ==
    IF Len(fields) = 0 THEN st
    ELSE SerializeFields(serialize_field(st, Head(fields).key, Head(fields).value),
                         Tail(fields))

\* The fields of a record, in declaration order; `?` returns the first error.
SerializeFields(st, fields) ==
    IF Len(fields) = 0 THEN st
    ELSE LET one == serialize_field(st, Head(fields).key, Head(fields).value)
         IN IF one.result.ok THEN SerializeFields(one, Tail(fields)) ELSE one

\* value.serialize(serializer): the Serialize impl of the visited value calls
\* the serializer method of its shape.
Serialize(st, value) ==
    CASE value.shape = "bool" -> serialize_bool(st, value.bool)
      [] value.shape = "i8" -> serialize_i8(st, value.int)
      [] value.shape = "i16" -> serialize_i16(st, value.int)
      [] value.shape = "i32" -> serialize_i32(st, value.int)
      [] value.shape = "i64" -> serialize_i64(st, value.int)
      [] value.shape = "u8" -> serialize_u8(st, value.int)
      [] value.shape = "u16" -> serialize_u16(st, value.int)
      [] value.shape = "u32" -> serialize_u32(st, value.int)
      [] value.shape = "u64" -> serialize_u64(st, value.int)
      [] value.shape = "f32" -> serialize_f32(st, value.float)
      [] value.shape = "f64" -> serialize_f64(st, value.float)
      [] value.shape = "char" -> serialize_char(st, value.char)
      [] value.shape = "str" -> serialize_str(st, value.str)
      [] value.shape = "bytes" -> serialize_bytes(st, value.bytes)
      [] value.shape = "none" -> serialize_none(st)
      [] value.shape = "some" -> serialize_some(st, value.some)
      [] value.shape = "struct" ->
            LET begun == serialize_struct(st)
                done == SerializeFields(begun, value.fields)
            IN IF ~begun.result.ok THEN begun
               ELSE IF done.result.ok THEN end(done) ELSE done
      [] value.shape = "unit" -> serialize_unit(st)
      [] value.shape = "unit_struct" -> serialize_unit_struct(st)
      [] value.shape = "unit_variant" -> serialize_unit_variant(st)
      [] value.shape = "newtype_struct" -> serialize_newtype_struct(st)
      [] value.shape = "newtype_variant" -> serialize_newtype_variant(st)
      [] value.shape = "seq" -> serialize_seq(st)
      [] value.shape = "tuple" -> serialize_tuple(st)
      [] value.shape = "tuple_struct" -> serialize_tuple_struct(st)
      [] value.shape = "tuple_variant" -> serialize_tuple_variant(st)
      [] value.shape = "map" -> serialize_map(st)
      [] value.shape = "struct_variant" -> serialize_struct_variant(st)
      [] value.shape = "display" -> collect_str(st)

\* a finish that closes the output with a delimiter
finish_terminated(st) == st.buffer \o st.delimiter

\* finish(self): the buffer, as a String
finish(st) == st.buffer

(* ------------------------------------------------------- sampled inputs *)
BoolValues == {TRUE, FALSE}
I8Values == {0 - 7}
I16Values == {0 - 300}
I32Values == {5, 42}
I64Values == {0}
U8Values == {255}
U16Values == {1000}
U32Values == {7}
U64Values == {10}
F32Values == {3}
F64Values == {0 - 1}
CharValues == {97, 233}
StrValues == {str_empty, str_ab}
BytesValues == {<<>>, <<255>>, <<251, 255>>, <<0, 1, 2>>, <<7, 8, 9, 10>>}

Inner == VStruct(<<Field(key_p, VInt("i32", 1)), Field(key_q, VInt("i32", 2))>>)
Broken == VStruct(<<Field(key_p, VOther("seq")), Field(key_q, VInt("i32", 2))>>)
Deep == VStruct(<<Field(key_inner, Broken), Field(key_r, VInt("i32", 3))>>)

SomeValues ==
    <<VInt("i32", 5), VNone, VOther("seq"), VBytes(<<255>>), VSome(VStr(str_ab)), Inner>>

FieldSamples ==
    <<Field(key_a, VNone), Field(key_b, VInt("i32", 5)),
     Field(key_x, VInt("i32", 42)), Field(key_y, VInt("i8", 0 - 7)),
     Field(key_inner, Inner), Field(key_r, VInt("i32", 3)),
     Field(key_d, VBytes(<<0, 1, 2>>)), Field(key_s, VOther("seq")),
     Field(key_n, Broken), Field(key_n, Deep),
     Field(key_x, VBool(TRUE)), Field(key_y, VBool(FALSE)),
     Field(key_y, VChar(233)), Field(key_x, VStr(str_ab))>>

(* ------------------------------------------------------- the state machine *)
\* IndexedSerializer::new / with_capacity (the capacity has no effect on the
\* content of the buffer)
Init ==
    /\ delimiter \in Delimiters
    /\ map_like \in BOOLEAN
    /\ buffer = <<>>
    /\ is_start = TRUE
    /\ result = Ok
    /\ appended = <<>>
    /\ open = 0
    /\ abandoned = FALSE
    /\ finished = FALSE
    /\ output = <<>>
    /\ nops = 0
    /\ last = [op |-> "new", arg |-> VOther("unit"), buffer |-> <<>>,
               is_start |-> TRUE, appended |-> <<>>]

Cur ==
    [delimiter |-> delimiter, buffer |-> buffer, map_like |-> map_like,
     is_start |-> is_start, appended |-> appended, result |-> result]

\* a finish that borrows the instance and leaves it usable
OwnedAfterFinish == finished \/ ~finished

\* finish takes self by value: the instance is usable until it is moved there
Owned == ~finished

\* a record handle is the &mut borrow of the instance, alive until end or drop
Borrowed == open > 0

\* One call on the live instance: the fields take the values the method left.
Effect(op, arg, post) ==
    /\ Owned
    /\ delimiter' = post.delimiter
    /\ buffer' = post.buffer
    /\ map_like' = post.map_like
    /\ is_start' = post.is_start
    /\ appended' = post.appended
    /\ result' = post.result
    /\ last' = [op |-> op, arg |-> arg, buffer |-> buffer,
                is_start |-> is_start, appended |-> appended]
    /\ UNCHANGED <<finished, output, abandoned>>

\* A call that hands a value to the serializer; MaxOps bounds their number.
Call(op, arg, post) ==
    /\ nops < MaxOps
    /\ Effect(op, arg, post)
    /\ nops' = nops + 1

Dispatch(op, arg, post) == Call(op, arg, post) /\ UNCHANGED open

SerializeBool == \E v \in BoolValues : Dispatch("serialize_bool", VBool(v), serialize_bool(Cur, v))
SerializeI8 == \E v \in I8Values : Dispatch("serialize_i8", VInt("i8", v), serialize_i8(Cur, v))
SerializeI16 == \E v \in I16Values : Dispatch("serialize_i16", VInt("i16", v), serialize_i16(Cur, v))
SerializeI32 == \E v \in I32Values : Dispatch("serialize_i32", VInt("i32", v), serialize_i32(Cur, v))
SerializeI64 == \E v \in I64Values : Dispatch("serialize_i64", VInt("i64", v), serialize_i64(Cur, v))
SerializeU8 == \E v \in U8Values : Dispatch("serialize_u8", VInt("u8", v), serialize_u8(Cur, v))
SerializeU16 == \E v \in U16Values : Dispatch("serialize_u16", VInt("u16", v), serialize_u16(Cur, v))
SerializeU32 == \E v \in U32Values : Dispatch("serialize_u32", VInt("u32", v), serialize_u32(Cur, v))
SerializeU64 == \E v \in U64Values : Dispatch("serialize_u64", VInt("u64", v), serialize_u64(Cur, v))
SerializeF32 == \E v \in F32Values : Dispatch("serialize_f32", VFloat("f32", v), serialize_f32(Cur, v))
SerializeF64 == \E v \in F64Values : Dispatch("serialize_f64", VFloat("f64", v), serialize_f64(Cur, v))
SerializeChar == \E v \in CharValues : Dispatch("serialize_char", VChar(v), serialize_char(Cur, v))
SerializeStr == \E v \in StrValues : Dispatch("serialize_str", VStr(v), serialize_str(Cur, v))
SerializeBytes == \E v \in BytesValues : Dispatch("serialize_bytes", VBytes(v), serialize_bytes(Cur, v))
SerializeNone == Dispatch("serialize_none", VNone, serialize_none(Cur))
SerializeSome ==
    \E i \in 1..Len(SomeValues) :
        Dispatch("serialize_some", SomeValues[i], serialize_some(Cur, SomeValues[i]))
SerializeUnit == Dispatch("serialize_unit", VOther("unit"), serialize_unit(Cur))
SerializeUnitStruct == Dispatch("serialize_unit_struct", VOther("unit_struct"), serialize_unit_struct(Cur))
SerializeUnitVariant == Dispatch("serialize_unit_variant", VOther("unit_variant"), serialize_unit_variant(Cur))
SerializeNewtypeStruct == Dispatch("serialize_newtype_struct", VOther("newtype_struct"), serialize_newtype_struct(Cur))
SerializeNewtypeVariant == Dispatch("serialize_newtype_variant", VOther("newtype_variant"), serialize_newtype_variant(Cur))
SerializeSeq == Dispatch("serialize_seq", VOther("seq"), serialize_seq(Cur))
SerializeTuple == Dispatch("serialize_tuple", VOther("tuple"), serialize_tuple(Cur))
SerializeTupleStruct == Dispatch("serialize_tuple_struct", VOther("tuple_struct"), serialize_tuple_struct(Cur))
SerializeTupleVariant == Dispatch("serialize_tuple_variant", VOther("tuple_variant"), serialize_tuple_variant(Cur))
SerializeMap == Dispatch("serialize_map", VOther("map"), serialize_map(Cur))
SerializeStructVariant == Dispatch("serialize_struct_variant", VOther("struct_variant"), serialize_struct_variant(Cur))
CollectStr == Dispatch("collect_str", VOther("display"), collect_str(Cur))

\* serialize_struct hands out the serializer itself as the record handle
SerializeStruct ==
    /\ open < MaxOpen
    /\ Effect("serialize_struct", VStruct(<<>>), serialize_struct(Cur))
    /\ open' = open + 1
    /\ UNCHANGED nops

\* SerializeStruct::serialize_field on an open record
SerializeField ==
    /\ open > 0
    /\ \E i \in 1..Len(FieldSamples) :
          Call("serialize_field", FieldSamples[i],
               serialize_field(Cur, FieldSamples[i].key, FieldSamples[i].value))
    /\ UNCHANGED open

\* SerializeStruct::end consumes the record handle
End ==
    /\ open > 0
    /\ Effect("end", VStruct(<<>>), end(Cur))
    /\ open' = open - 1
    /\ UNCHANGED nops

\* a record handle goes out of scope without end, as the `?` of a record's
\* Serialize impl does after a failed field: no method of the serializer runs,
\* the borrow is released
DropStruct ==
    /\ Owned
    /\ Borrowed
    /\ ~result.ok
    /\ open' = open - 1
    /\ abandoned' = TRUE
    /\ UNCHANGED <<delimiter, buffer, map_like, is_start, result, appended,
                   finished, output, last, nops>>

\* finish consumes the serializer
Finish ==
    /\ Owned
    /\ ~Borrowed
    /\ finished' = TRUE
    /\ output' = finish(Cur)
    /\ last' = [op |-> "finish", arg |-> VOther("unit"), buffer |-> buffer,
                is_start |-> is_start, appended |-> appended]
    /\ UNCHANGED <<delimiter, buffer, map_like, is_start, result, appended,
                   open, abandoned, nops>>

Next ==
    \/ SerializeBool \/ SerializeI8 \/ SerializeI16 \/ SerializeI32
    \/ SerializeI64 \/ SerializeU8 \/ SerializeU16 \/ SerializeU32
    \/ SerializeU64 \/ SerializeF32 \/ SerializeF64 \/ SerializeChar
    \/ SerializeStr \/ SerializeBytes \/ SerializeNone \/ SerializeSome
    \/ SerializeUnit \/ SerializeUnitStruct \/ SerializeUnitVariant
    \/ SerializeNewtypeStruct \/ SerializeNewtypeVariant \/ SerializeSeq
    \/ SerializeTuple \/ SerializeTupleStruct \/ SerializeTupleVariant
    \/ SerializeMap \/ SerializeStructVariant \/ CollectStr
    \/ SerializeStruct \/ SerializeField \/ End \/ DropStruct \/ Finish

Spec == Init /\ [][Next]_vars

TypeOK ==
    /\ delimiter \in Delimiters
    /\ map_like \in BOOLEAN
    /\ is_start \in BOOLEAN
    /\ finished \in BOOLEAN
    /\ abandoned \in BOOLEAN
    /\ open \in 0..MaxOpen
    /\ nops \in 0..MaxOps

(* ================================================================ claims *)
\* The instance as it was when the last call began.
Pre ==
    [delimiter |-> delimiter, buffer |-> last.buffer, map_like |-> map_like,
     is_start |-> last.is_start, appended |-> last.appended, result |-> Ok]

RECURSIVE Join(_, _)
\* the segments of a log, interleaved with the delimiter
Join(log, d) ==
    IF Len(log) = 0 THEN <<>>
    ELSE IF Len(log) = 1 THEN log[1].seg
    ELSE log[1].seg \o d \o Join(Tail(log), d)

Added == SubSeq(buffer, Len(last.buffer) + 1, Len(buffer))

IsPrefix(a, b) == Len(a) <= Len(b) /\ SubSeq(b, 1, Len(a)) = a

EndsWith(a, d) == Len(d) <= Len(a) /\ SubSeq(a, Len(a) - Len(d) + 1, Len(a)) = d

LeafOps ==
    {"serialize_bool", "serialize_i8", "serialize_i16", "serialize_i32",
     "serialize_i64", "serialize_u8", "serialize_u16", "serialize_u32",
     "serialize_u64", "serialize_f32", "serialize_f64", "serialize_char",
     "serialize_str", "serialize_bytes", "serialize_none"}

UnsupportedOps ==
    {"serialize_unit", "serialize_unit_struct", "serialize_unit_variant",
     "serialize_newtype_struct", "serialize_newtype_variant", "serialize_seq",
     "serialize_tuple", "serialize_tuple_struct", "serialize_tuple_variant",
     "serialize_map", "serialize_struct_variant", "collect_str"}

AppendKinds == {"integer", "float", "text"}

HasKind(log, kinds) == \E i \in 1..Len(log) : log[i].kind \in kinds

\* C1: every dispatcher call of a primitive or absent value writes the
\* delimiter exactly once before its segment, except the very first call on
\* the instance, which writes none.
C1_DelimiterBeforeEveryCallButFirst ==
    last.op \in LeafOps =>
        /\ Len(appended) = Len(last.appended) + 1
        /\ buffer = last.buffer
                      \o (IF Len(last.appended) = 0 THEN <<>> ELSE delimiter)
                      \o appended[Len(appended)].seg

C3_StartIffNoAppendAtAll ==
    is_start <=> ~HasKind(appended, AppendKinds \cup {"absent"})

\* C4: serialize_bytes follows the delimiter discipline of append: the
\* delimiter before the encoded text unless is_start, and is_start false
\* afterwards.
C4_BytesFollowAppendDiscipline ==
    last.op = "serialize_bytes" =>
        /\ buffer = last.buffer
                      \o (IF last.is_start THEN <<>> ELSE delimiter)
                      \o Base64Encode(last.arg.bytes)
        /\ is_start = FALSE

\* C5: an unsupported shape returns Unsupported with the name of its method
\* and leaves buffer and is_start as they were.
C5_UnsupportedLeavesStateAlone ==
    last.op \in UnsupportedOps =>
        /\ result = Unsupported(last.op)
        /\ buffer = last.buffer
        /\ is_start = last.is_start
        /\ appended = last.appended

C5_Witness ==
    /\ last.op = "serialize_seq"
    /\ Len(last.buffer) > 0
    /\ ~last.is_start
    /\ ~result.ok

PrimitiveShapes ==
    {"bool", "i8", "i16", "i32", "i64", "u8", "u16", "u32", "u64",
     "f32", "f64", "char", "str", "bytes"}

\* the direct text form of a primitive value
TextForm(value) ==
    CASE value.shape = "bool" -> IF value.bool THEN <<49>> ELSE <<48>>
      [] value.shape \in {"i8", "i16", "i32", "i64", "u8", "u16", "u32", "u64"} ->
            itoa_write(value.int)
      [] value.shape \in {"f32", "f64"} -> dtoa_write(value.float)
      [] value.shape = "char" -> encode_utf8(value.char)
      [] value.shape = "str" -> value.str
      [] value.shape = "bytes" -> Base64Encode(value.bytes)

\* C6: serialize_field of a primitive value: with map_like the key is
\* appended as a segment of its own and the value as the next one, each after
\* its own delimiter except at the start of the output; without map_like the
\* value alone is dispatched.
C6_FieldWritesNameThenValue ==
    (last.op = "serialize_field" /\ last.arg.value.shape \in PrimitiveShapes) =>
        IF map_like
        THEN /\ buffer = last.buffer
                           \o (IF last.is_start THEN <<>> ELSE delimiter)
                           \o last.arg.key \o delimiter \o TextForm(last.arg.value)
             /\ Len(appended) = Len(last.appended) + 2
        ELSE /\ buffer = Serialize(Pre, last.arg.value).buffer
             /\ Len(appended) = Len(last.appended) + 1

\* C7: serialize_struct and end write nothing and leave is_start alone, and a
\* field whose value is a record leaves the instance as the record's own
\* fields, serialized one after the other on it, would; {inner: {p: 1, q: 2},
\* r: 3} with "," and map_like = false gives "1,2,3".
C7_NestedRecordIsFlat ==
    /\ last.op \in {"serialize_struct", "end"} =>
          /\ buffer = last.buffer
          /\ is_start = last.is_start
          /\ appended = last.appended
          /\ result = Ok
    /\ (last.op = "serialize_field" /\ last.arg.value.shape = "struct") =>
          LET named == IF map_like THEN append(Pre, last.arg.key) ELSE Pre
              flat == SerializeFields(named, last.arg.value.fields)
          IN /\ buffer = flat.buffer
             /\ is_start = flat.is_start
             /\ result = flat.result
    /\ (/\ last.op = "serialize_field" /\ last.arg.key = key_inner
        /\ delimiter = Comma /\ ~map_like
        /\ last.buffer = <<>> /\ last.is_start) =>
          buffer = <<49, 44, 50>> /\ ~is_start
    /\ (/\ last.op = "serialize_field" /\ last.arg.key = key_r
        /\ delimiter = Comma /\ ~map_like
        /\ last.buffer = <<49, 44, 50>> /\ ~last.is_start) =>
          buffer = <<49, 44, 50, 44, 51>>

C7_Witness ==
    /\ last.op = "serialize_field" /\ last.arg.key = key_r
    /\ delimiter = Comma /\ ~map_like
    /\ Len(last.appended) = 2
    /\ last.buffer = <<49, 44, 50>>
    /\ buffer = <<49, 44, 50, 44, 51>>

\* C8: the text finish returns is the appended segments, in order,
\* interleaved with the delimiter, and a delimiter at its end is followed by
\* an (empty) segment.
C8_OutputIsSegmentsJoined ==
    finished =>
        /\ output = Join(appended, delimiter)
        /\ EndsWith(output, delimiter) =>
              (Len(appended) >= 2 /\ appended[Len(appended)].seg = <<>>)

\* C9 as stated: serialize_bytes adds exactly ceil(n * 4 / 3) characters for n
\* input bytes, none of them '+' or '/'.
C9_BytesAddCeilFourThirds ==
    last.op = "serialize_bytes" =>
        /\ Len(buffer) - Len(last.buffer) = (Len(last.arg.bytes) * 4 + 2) \div 3
        /\ \A i \in 1..Len(Added) : Added[i] \notin {43, 47}

\* C9 amended: serialize_bytes adds exactly 4 * ceil(n / 3) characters (the
\* URL_SAFE configuration pads with '='), none of them '+' or '/', after the
\* bytes that were in the buffer; [0,1,2] adds 4 characters.
C9_BytesAddPaddedQuads ==
    last.op = "serialize_bytes" =>
        /\ Len(buffer) - Len(last.buffer) = 4 * ((Len(last.arg.bytes) + 2) \div 3)
        /\ IsPrefix(last.buffer, buffer)
        /\ \A i \in 1..Len(Added) : Added[i] \notin {43, 47}
        /\ last.arg.bytes = <<0, 1, 2>> => Len(Added) = 4
        /\ result = Ok

C9_Witness ==
    /\ last.op = "serialize_bytes"
    /\ last.arg.bytes = <<251, 255>>
    /\ Len(last.buffer) > 0
    /\ Added = <<45, 95, 56, 61>>

\* C10: serialize_some(v) leaves the buffer, is_start and the returned result
\* exactly as dispatching v itself in the same state does.
C10_SomeIsTransparent ==
    last.op = "serialize_some" =>
        LET direct == Serialize(Pre, last.arg)
        IN /\ buffer = direct.buffer
           /\ is_start = direct.is_start
           /\ result = direct.result
           /\ appended = direct.appended

C10_Witness ==
    /\ last.op = "serialize_some"
    /\ last.arg.shape = "i32"
    /\ ~last.is_start
    /\ buffer = last.buffer \o delimiter \o <<53>>

\* a fresh instance: nothing written, nothing logged, is_start still set
FreshBefore == last.buffer = <<>> /\ last.is_start /\ Len(last.appended) = 0

C11Shapes ==
    {"bool", "i8", "i16", "i32", "i64", "u8", "u16", "u32", "u64",
     "char", "str", "bytes"}

\* C11: on a fresh instance with map_like = false, the single field of a
\* record holding a boolean, integer, char, text or bytes value leaves in the
\* buffer exactly the value's direct text form and no delimiter: true gives
\* "1", false "0", 42 gives "42", -7 gives "-7".
C11_SingleFieldIsDirectText ==
    (/\ last.op = "serialize_field"
     /\ ~map_like
     /\ FreshBefore
     /\ last.arg.value.shape \in C11Shapes) =>
        /\ result = Ok
        /\ buffer = TextForm(last.arg.value)
        /\ last.arg.value = VBool(TRUE) => buffer = <<49>>
        /\ last.arg.value = VBool(FALSE) => buffer = <<48>>
        /\ last.arg.value = VInt("i32", 42) => buffer = <<52, 50>>
        /\ last.arg.value = VInt("i8", 0 - 7) => buffer = <<45, 55>>
        /\ last.arg.value = VChar(233) => buffer = <<195, 169>>
        /\ last.arg.value = VStr(str_ab) => buffer = str_ab
        /\ last.arg.value = VBytes(<<0, 1, 2>>) => buffer = <<65, 65, 69, 67>>
        /\ ~EndsWith(buffer, delimiter)
        /\ ~IsPrefix(delimiter, buffer)

C11_Witness ==
    /\ last.op = "serialize_field"
    /\ ~map_like
    /\ FreshBefore
    /\ open = 1
    /\ last.arg.value = VBool(FALSE)
    /\ buffer = <<48>>

\* C12: finish on an instance where no call wrote anything (fresh, after
\* records begun and ended or dropped without fields, or after refused calls
\* only) returns the empty string.
C12_FinishOfNothingIsEmpty ==
    (finished /\ Len(appended) = 0) => output = <<>>

C12_Witness ==
    /\ finished
    /\ Len(appended) = 0
    /\ last.op = "finish"
    /\ output = <<>>
    /\ nops = 0

\* C13 (as stated): no call of any kind happens on an instance after finish,
\* and finish happens only when every record begun on the instance has been
\* closed by its end.
C13_FinishOnlyAfterEveryEnd ==
    [][/\ ~finished
       /\ finished' => (~Borrowed /\ ~abandoned)]_vars

\* C13 (amended): no call of any kind happens on an instance after finish,
\* and finish happens only when no record handle is alive; a handle dropped
\* without end releases the instance as end does.
C13_FinishOnceAndUnborrowed ==
    [][/\ ~finished
       /\ finished' => ~Borrowed]_vars

C13_Witness ==
    /\ finished
    /\ abandoned
    /\ last.op = "finish"
    /\ ~result.ok
    /\ Len(output) > 0

\* the error a value of an unsupported shape is refused with
RefusalOf(shape) ==
    Unsupported(IF shape = "display" THEN "collect_str" ELSE "serialize_" \o shape)

UnsupportedField ==
    /\ last.op = "serialize_field"
    /\ last.arg.value.shape \in UnsupportedShapes

\* C14 (as stated): serialize_field with a value of an unsupported shape
\* fails with the unsupported error and leaves buffer and is_start as they
\* were before the call, with map_like false and with map_like true.
C14_RefusedFieldLeavesStateAlone ==
    UnsupportedField =>
        /\ result = RefusalOf(last.arg.value.shape)
        /\ buffer = last.buffer
        /\ is_start = last.is_start

\* C14 (amended): serialize_field with a value of an unsupported shape fails
\* with the unsupported error; with map_like false buffer and is_start are as
\* before the call, with map_like true the key has already been appended
\* (after the delimiter unless is_start was set) and is_start is false.
C14_RefusedFieldKeepsOnlyTheKey ==
    UnsupportedField =>
        /\ result = RefusalOf(last.arg.value.shape)
        /\ ~map_like => (buffer = last.buffer /\ is_start = last.is_start)
        /\ map_like =>
              /\ buffer = last.buffer
                            \o (IF last.is_start THEN <<>> ELSE delimiter)
                            \o last.arg.key
              /\ ~is_start

C14_Witness ==
    /\ UnsupportedField
    /\ map_like
    /\ ~last.is_start
    /\ result = Unsupported("serialize_seq")
    /\ buffer = last.buffer \o delimiter \o key_s

\* what a primitive value is logged as
KindOf(shape) ==
    CASE shape \in {"i8", "i16", "i32", "i64", "u8", "u16", "u32", "u64"} -> "integer"
      [] shape \in {"f32", "f64"} -> "float"
      [] shape \in {"bool", "char", "str"} -> "text"
      [] shape = "bytes" -> "bytes"

RECURSIVE Events(_, _), FieldEvents(_, _)
\* the leaves of a value in traversal order, keys included when ml: a
\* primitive or absent leaf as what it writes, a refused leaf as its method
Events(value, ml) ==
    CASE value.shape \in PrimitiveShapes ->
            <<[kind |-> KindOf(value.shape), seg |-> TextForm(value)]>>
      [] value.shape = "none" -> <<[kind |-> "absent", seg |-> <<>>]>>
      [] value.shape = "some" -> Events(value.some, ml)
      [] value.shape = "struct" -> FieldEvents(value.fields, ml)
      [] value.shape \in UnsupportedShapes ->
            <<[kind |-> RefusalOf(value.shape).err, seg |-> <<>>]>>

FieldEvents(fields, ml) ==
    IF Len(fields) = 0 THEN <<>>
    ELSE (IF ml THEN <<[kind |-> "text", seg |-> Head(fields).key]>> ELSE <<>>)
           \o Events(Head(fields).value, ml)
           \o FieldEvents(Tail(fields), ml)

\* the events of the last call, when it was a field or a present optional
LastEvents ==
    IF last.op = "serialize_field" THEN FieldEvents(<<last.arg>>, map_like)
    ELSE Events(last.arg, map_like)

Refused(events) == {i \in 1..Len(events) : events[i].kind \in UnsupportedOps}

FirstRefused(events) == CHOOSE i \in Refused(events) : \A j \in Refused(events) : i <= j

AppendOps ==
    {"serialize_bool", "serialize_i8", "serialize_i16", "serialize_i32",
     "serialize_i64", "serialize_u8", "serialize_u16", "serialize_u32",
     "serialize_u64", "serialize_f32", "serialize_f64", "serialize_char",
     "serialize_str"}

\* C16: every step leaves is_start false once it is false, leaves it false
\* after a successful call that goes through append_integer, append_float or
\* append, and leaves delimiter and map_like as they were constructed.
C16_StartIsMonotone ==
    [][/\ ~is_start => ~is_start'
       /\ (last'.op \in AppendOps /\ result'.ok) => ~is_start'
       /\ delimiter' = delimiter
       /\ map_like' = map_like]_vars

C16_Witness ==
    /\ last.op = "serialize_none"
    /\ ~last.is_start
    /\ ~is_start
    /\ HasKind(last.appended, {"integer"})

\* C17: in serialize_bytes the region reserved after idx, n * 4 / 3 + 4
\* bytes for an input of n bytes, holds the whole encoded text, so the encoder
\* never writes past it, and the trim leaves the buffer exactly idx + written
\* long, never shorter than idx.
C17_ReserveCoversEncodedText ==
    last.op = "serialize_bytes" =>
        LET n == Len(last.arg.bytes)
            idx == Len(last.buffer)
            written == Len(Base64Encode(last.arg.bytes))
        IN /\ (n * 4) \div 3 + 4 >= written
           /\ result # Panic
           /\ Len(buffer) = idx + written
           /\ Len(buffer) >= idx

C17_Witness ==
    /\ last.op = "serialize_bytes"
    /\ Len(last.arg.bytes) = 4
    /\ Len(last.buffer) > 0
    /\ Len(buffer) = Len(last.buffer) + 8
    /\ result = Ok

\* C18: whatever the call (a dispatcher method, a field, the begin or the end
\* of a record) and whether it succeeded or failed, the buffer before the
\* call is a prefix of the buffer after it.
C18_BufferIsAppendOnly ==
    [][IsPrefix(buffer, buffer')]_vars

C18_Witness ==
    /\ last.op = "serialize_field"
    /\ ~result.ok
    /\ Len(last.buffer) > 0
    /\ Len(buffer) > Len(last.buffer)
    /\ IsPrefix(last.buffer, buffer)

\* the number of places where d occurs in buf
CountDelims(buf, d) ==
    Cardinality({i \in 1..Len(buf) :
                    /\ i + Len(d) - 1 <= Len(buf)
                    /\ SubSeq(buf, i, i + Len(d) - 1) = d})

\* every value written so far was absent, a boolean, a number, a char or a text
OnlyPlainLeaves ==
    \A i \in 1..Len(appended) : appended[i].kind \in AppendKinds \cup {"absent"}

====
